---- MODULE Spec2Model ----
(***************************************************************************)
(* Model of main.go: a process that loads config.yaml, creates the three   *)
(* working directories, watches ./source with fsnotify and, for every      *)
(* Create event on a non-directory, uploads the file (processFile), writes *)
(* the response body to ./processed and renames the original into          *)
(* ./destination (moveFile).                                               *)
(*                                                                         *)
(* A directory is a function from the names it holds to what it holds.     *)
(* The file system, the remote endpoint and the watcher are the            *)
(* environment: their outcomes (a failing syscall, a status, a body) are   *)
(* drawn with \E.                                                          *)
(***************************************************************************)
EXTENDS Integers, Sequences, FiniteSets, TLC

\* ---------------------------------------------------------------- bounds
MaxEvents == 2
MaxBody == 1

\* ------------------------------------------------------- sample inputs
Names == {"cat.png", "dog.png"}
Bytes == {"R", "E"}
Statuses == {200, 204, 500}

RECURSIVE SeqsUpTo(_)
SeqsUpTo(n) ==
    IF n = 0 THEN {<< >>}
    ELSE LET S == SeqsUpTo(n - 1)
         IN  S \cup {Append(s, b) : s \in {t \in S : Len(t) = n - 1}, b \in Bytes}

Content == SeqsUpTo(MaxBody)

\* ------------------------------------------------------ program constants
sourceDir == "source"
destDir == "destination"
processedDir == "processed"
DirOrder == <<sourceDir, destDir, processedDir>>
StatusOK == 200

VARIABLES
    phase,          \* where main is: loadConfig, mkdirs, newWatcher, addWatch, running, exited
    cfgFile,        \* what config.yaml is: unreadable, unparsable, noUrl, ok
    apiUrl,         \* config.APIUrl once loaded ("nil" before)
    dirs,           \* the directories createDirIfNotExists has gone through
    entered,        \* dirWatcher has been called
    watcherCreated, \* fsnotify.NewWatcher has returned a watcher
    source,         \* ./source: name -> "file" | "dir"
    dest,           \* ./destination: name -> "file" | "dir"
    processed,      \* ./processed: name -> content (a sequence of bytes)
    events,         \* watcher.Events, in delivery order
    pc,             \* where the goroutine is: recv, sleep, http, resp, move
    cur,            \* the event being handled (event, filePath)
    resp,           \* the response client.Do returned, until processFile has consumed it
    inflight,       \* outbound HTTP requests issued and not yet answered
    taken,          \* events received from watcher.Events
    completed,      \* events whose handling has run to the end of the loop body
    logged,         \* the last line written by log/fmt
    errored         \* a steady-state error has been logged

vars == <<phase, cfgFile, apiUrl, dirs, entered, watcherCreated, source, dest,
          processed, events, pc, cur, resp, inflight, taken, completed, logged, errored>>

startupVars == <<cfgFile, apiUrl, dirs, entered, watcherCreated>>

NoEvent == [name |-> "", op |-> {}, kind |-> "none"]
NoResp == [err |-> FALSE, status |-> 0, body |-> << >>, readOk |-> TRUE]

Responses ==
    {[err |-> TRUE, status |-> 0, body |-> << >>, readOk |-> TRUE]}
    \cup [err : {FALSE}, status : Statuses, body : Content, readOk : {TRUE}]
    \cup [err : {FALSE}, status : Statuses, body : {<< >>}, readOk : {FALSE}]

Delivered == taken + Len(events)

\* ------------------------------------------------------------- helpers
Remove(dir, n) == [x \in DOMAIN dir \ {n} |-> dir[x]]
Put(dir, n, v) == (n :> v) @@ dir

\* event.Op&fsnotify.Create == fsnotify.Create
HasCreateAny(op) == op # {}
HasCreate(op) == "Create" \in op

\* isDirectory: false when os.Stat fails, fileInfo.IsDir() otherwise
isDirectory(path, statOk) ==
    IF ~statOk THEN FALSE ELSE source[path] = "dir"

\* os.Stat fails on a missing path, and may fail on an existing one
StatOutcomes(path) ==
    IF path \in DOMAIN source THEN BOOLEAN ELSE {FALSE}

\* the select in the for loop takes an event only at the top of the loop body
CanReceiveAlways == TRUE
CanReceive == pc = "recv"

\* the end of the loop body: the for loop goes back to the select
LoopHalts == "halt"
LoopAgain == "recv"

\* client.Do(req) returns when the response has arrived: the goroutine waits in it
NoAwait == "recv"
AwaitResponse == "http"

\* res.StatusCode != 200
IsErrorStatusLax(status) == status >= 400
IsErrorStatus(status) == status # StatusOK

\* os.OpenFile(O_CREATE|O_WRONLY) then file.Write(b): b lands at offset 0,
\* the file is not truncated
WriteAt0(old, b) ==
    b \o SubSeq(old, Len(b) + 1, Len(old))

\* os.Rename: the entry leaves the source directory ...
RenameCopies(dir, n) == dir
RenameFrom(dir, n) == Remove(dir, n)
\* ... and replaces whatever the destination held under that name
RenameInto(dir, n, v) == Put(dir, n, v)

\* ---------------------------------------------------------------- init
Init ==
    /\ phase = "loadConfig"
    /\ cfgFile \in {"unreadable", "unparsable", "noUrl", "ok"}
    /\ apiUrl = "nil"
    /\ dirs = {}
    /\ entered = FALSE
    /\ watcherCreated = FALSE
    /\ source \in UNION {[D -> {"file"}] : D \in SUBSET Names}
    /\ dest = << >>
    /\ processed = << >>
    /\ events = << >>
    /\ pc = "recv"
    /\ cur = NoEvent
    /\ resp = NoResp
    /\ inflight = 0
    /\ taken = 0
    /\ completed = 0
    /\ logged = "none"
    /\ errored = FALSE

\* ------------------------------------------------------------- startup
\* main: loadConfig, log.Fatalf on error
LoadConfig ==
    /\ phase = "loadConfig"
    /\ IF cfgFile \in {"unreadable", "unparsable"}
       THEN /\ phase' = "exited"
            /\ logged' = "fatal"
            /\ UNCHANGED apiUrl
       ELSE /\ phase' = "mkdirs"
            /\ apiUrl' = IF cfgFile = "noUrl" THEN "" ELSE "http://api"
            /\ UNCHANGED logged
    /\ UNCHANGED <<cfgFile, dirs, entered, watcherCreated, source, dest, processed,
                   events, pc, cur, resp, inflight, taken, completed, errored>>

\* main: the three createDirIfNotExists calls, in order; log.Fatal on error
CreateDir ==
    /\ phase = "mkdirs"
    /\ \E ok \in BOOLEAN :
        LET d == DirOrder[Cardinality(dirs) + 1] IN
        IF ok
        THEN /\ dirs' = dirs \cup {d}
             /\ phase' = IF Cardinality(dirs) + 1 = Len(DirOrder)
                         THEN "newWatcher" ELSE "mkdirs"
             /\ UNCHANGED logged
        ELSE /\ phase' = "exited"
             /\ logged' = "fatal"
             /\ UNCHANGED dirs
    /\ UNCHANGED <<cfgFile, apiUrl, entered, watcherCreated, source, dest, processed,
                   events, pc, cur, resp, inflight, taken, completed, errored>>

\* dirWatcher: fsnotify.NewWatcher, then the goroutine is started
NewWatcher ==
    /\ phase = "newWatcher"
    /\ entered' = TRUE
    /\ \E ok \in BOOLEAN :
        IF ok
        THEN /\ watcherCreated' = TRUE
             /\ phase' = "addWatch"
             /\ UNCHANGED logged
        ELSE /\ phase' = "exited"
             /\ logged' = "fatal"
             /\ UNCHANGED watcherCreated
    /\ UNCHANGED <<cfgFile, apiUrl, dirs, source, dest, processed,
                   events, pc, cur, resp, inflight, taken, completed, errored>>

\* dirWatcher: watcher.Add(sourceDir), then <-done
AddWatch ==
    /\ phase = "addWatch"
    /\ \E ok \in BOOLEAN :
        IF ok
        THEN /\ phase' = "running"
             /\ UNCHANGED logged
        ELSE /\ phase' = "exited"
             /\ logged' = "fatal"
    /\ UNCHANGED <<cfgFile, apiUrl, dirs, entered, watcherCreated, source, dest, processed,
                   events, pc, cur, resp, inflight, taken, completed, errored>>

\* --------------------------------------------------------- environment
\* something creates a file or a directory in ./source, or moves a file into
\* it over a file of the same name (the watcher reports both as Create)
EnvCreate ==
    /\ phase = "running"
    /\ Delivered < MaxEvents
    /\ \E n \in Names, k \in {"file", "dir"},
          op \in {{"Create"}, {"Create", "Write"}} :
        /\ IF n \in DOMAIN source THEN source[n] = "file" /\ k = "file" ELSE TRUE
        /\ source' = Put(source, n, k)
        /\ events' = Append(events, [name |-> n, op |-> op, kind |-> k])
    /\ UNCHANGED <<phase, startupVars, dest, processed, pc, cur, resp, inflight,
                   taken, completed, logged, errored>>

\* something removes an entry of ./source
EnvRemove ==
    /\ phase = "running"
    /\ Delivered < MaxEvents
    /\ \E n \in DOMAIN source :
        /\ source' = Remove(source, n)
        /\ events' = Append(events, [name |-> n, op |-> {"Remove"}, kind |-> source[n]])
    /\ UNCHANGED <<phase, startupVars, dest, processed, pc, cur, resp, inflight,
                   taken, completed, logged, errored>>

\* something writes to, or changes the mode of, an entry of ./source
EnvTouch ==
    /\ phase = "running"
    /\ Delivered < MaxEvents
    /\ \E n \in DOMAIN source, o \in {"Write", "Chmod"} :
        events' = Append(events, [name |-> n, op |-> {o}, kind |-> source[n]])
    /\ UNCHANGED <<phase, startupVars, source, dest, processed, pc, cur, resp, inflight,
                   taken, completed, logged, errored>>

\* the endpoint answers the request in flight, or the transport fails
Respond ==
    /\ phase = "running"
    /\ pc = "http"
    /\ \E r \in Responses : resp' = r
    /\ inflight' = inflight - 1
    /\ pc' = "resp"
    /\ UNCHANGED <<phase, startupVars, source, dest, processed, events, cur,
                   taken, completed, logged, errored>>

\* ----------------------------------------------------------- goroutine
\* case event, ok := <-watcher.Events, up to the call of time.Sleep
Receive ==
    /\ phase = "running"
    /\ CanReceive
    /\ events # << >>
    /\ LET ev == Head(events) IN
        /\ events' = Tail(events)
        /\ cur' = ev
        /\ taken' = taken + 1
        /\ IF ~HasCreate(ev.op)
           THEN /\ pc' = LoopAgain
                /\ completed' = completed + 1
                /\ UNCHANGED logged
           ELSE \E statOk \in StatOutcomes(ev.name) :
                /\ logged' = IF statOk THEN logged ELSE "statErr"
                /\ IF isDirectory(ev.name, statOk)
                   THEN /\ pc' = LoopAgain
                        /\ completed' = completed + 1
                   ELSE /\ pc' = "sleep"
                        /\ UNCHANGED completed
    /\ UNCHANGED <<phase, startupVars, source, dest, processed, resp, inflight, errored>>

\* case err, ok := <-watcher.Errors
WatchError ==
    /\ phase = "running"
    /\ pc = "recv"
    /\ logged' = "watchErr"
    /\ errored' = TRUE
    /\ pc' = LoopAgain
    /\ UNCHANGED <<phase, startupVars, source, dest, processed, events, cur, resp,
                   inflight, taken, completed>>

\* processFile returned the error err: log.Println(..., err), end of the loop body
ProcessFailed(err) ==
    /\ logged' = err
    /\ errored' = TRUE
    /\ pc' = LoopAgain
    /\ completed' = completed + 1

\* processFile from its first line to client.Do(req)
StartProcess ==
    /\ phase = "running"
    /\ pc = "sleep"
    /\ \E ioOk \in BOOLEAN :
        IF \/ cur.name \notin DOMAIN source     \* os.Open fails
           \/ source[cur.name] = "dir"          \* io.Copy fails: is a directory
           \/ ~ioOk                             \* os.Open or io.Copy fails
           \/ apiUrl = ""                       \* client.Do: unsupported protocol scheme
        THEN /\ ProcessFailed(IF apiUrl = "" /\ ioOk /\ cur.name \in DOMAIN source
                                  /\ source[cur.name] = "file"
                               THEN "err:do" ELSE "err:open")
             /\ UNCHANGED inflight
        ELSE /\ inflight' = inflight + 1
             /\ pc' = AwaitResponse
             /\ logged' = "process"
             /\ UNCHANGED <<completed, errored>>
    /\ UNCHANGED <<phase, startupVars, source, dest, processed, events, cur, resp, taken>>

\* processFile from the return of client.Do to its own return
FinishProcess ==
    /\ phase = "running"
    /\ pc = "resp"
    /\ resp' = NoResp
    /\ LET n == cur.name
           old == IF n \in DOMAIN processed THEN processed[n] ELSE << >>
       IN
       IF resp.err \/ IsErrorStatus(resp.status) \/ ~resp.readOk
       THEN /\ ProcessFailed(IF resp.err THEN "err:do"
                              ELSE IF ~resp.readOk THEN "err:readAll"
                              ELSE "err:status")
            /\ UNCHANGED processed
       ELSE \E openOk \in BOOLEAN :
            IF ~openOk
            THEN /\ ProcessFailed("err:openOut")
                 /\ UNCHANGED processed
            ELSE \E k \in 0..Len(resp.body) :
                 /\ processed' = Put(processed, n, WriteAt0(old, SubSeq(resp.body, 1, k)))
                 /\ IF k < Len(resp.body)
                    THEN ProcessFailed("err:write")
                    ELSE /\ pc' = "move"
                         /\ UNCHANGED <<logged, errored, completed>>
    /\ UNCHANGED <<phase, startupVars, source, dest, events, cur, inflight, taken>>

\* moveFile(filePath, destDir), end of the loop body
MoveFile ==
    /\ phase = "running"
    /\ pc = "move"
    /\ pc' = LoopAgain
    /\ completed' = completed + 1
    /\ \E renameOk \in (IF cur.name \in DOMAIN source THEN BOOLEAN ELSE {FALSE}) :
        IF renameOk
        THEN /\ source' = RenameFrom(source, cur.name)
             /\ dest' = RenameInto(dest, cur.name, source[cur.name])
             /\ events' = Append(events, [name |-> cur.name, op |-> {"Rename"},
                                          kind |-> source[cur.name]])
             /\ logged' = "moved"
             /\ UNCHANGED errored
        ELSE /\ logged' = "moveErr"
             /\ errored' = TRUE
             /\ UNCHANGED <<source, dest, events>>
    /\ UNCHANGED <<phase, startupVars, processed, cur, resp, inflight, taken>>

Next ==
    \/ LoadConfig
    \/ CreateDir
    \/ NewWatcher
    \/ AddWatch
    \/ EnvCreate
    \/ EnvRemove
    \/ EnvTouch
    \/ Respond
    \/ Receive
    \/ WatchError
    \/ StartProcess
    \/ FinishProcess
    \/ MoveFile

Spec == Init /\ [][Next]_vars

\* The goroutine is scheduled whenever it can take a step, and every HTTP
\* request eventually returns.
LiveSpec ==
    /\ Spec
    /\ WF_vars(Receive)
    /\ WF_vars(StartProcess)
    /\ WF_vars(FinishProcess)
    /\ WF_vars(MoveFile)
    /\ WF_vars(Respond)

TypeOK ==
    /\ phase \in {"loadConfig", "mkdirs", "newWatcher", "addWatch", "running", "exited"}
    /\ pc \in {"recv", "sleep", "http", "resp", "move"}
    /\ DOMAIN source \subseteq Names
    /\ DOMAIN dest \subseteq Names
    /\ DOMAIN processed \subseteq Names
    /\ \A n \in DOMAIN processed : processed[n] \in Content
    /\ inflight \in 0..1
    /\ completed <= taken

\* =================================================================== claims

\* the step in which moveFile runs and the handling of the event ends
MoveStep == pc = "move" /\ pc' # "move"
\* the step in which processFile consumes the response and returns
FinishStep == pc = "resp" /\ pc' # "resp"
\* the step in which processFile is called with cur.name
InvokeStep == pc = "sleep" /\ pc' # "sleep"
\* a step in which processFile returns an error
ErrorReturnStep == pc \in {"sleep", "resp"} /\ pc' = "recv"

C2_FailureLeavesFiles ==
    [][(FinishStep /\ (resp.err \/ resp.status # StatusOK)) =>
        /\ processed' = processed
        /\ source' = source
        /\ dest' = dest
        /\ pc' # "move"
        /\ logged' \in {"err:do", "err:status", "err:readAll"}]_vars

C2_Witness ==
    /\ pc = "recv"
    /\ logged = "err:status"
    /\ cur.name \in DOMAIN source
    /\ cur.name \notin DOMAIN processed
    /\ cur.name \notin DOMAIN dest

\* C3 (as stated): after processFile succeeds on a 200 response with body B,
\* the content of processed/base(F) is exactly B, whatever the file held before.
C3_Claim ==
    [][(FinishStep /\ pc' = "move") => processed'[cur.name] = resp.body]_vars

\* C4 (as stated): processFile is never called with the path of a Create event
\* whose path denoted a directory.
C4_Claim ==
    [][~(InvokeStep /\ cur.kind = "dir")]_vars

\* C5: once the watch loop runs, nothing stops it (the process does not exit
\* and the goroutine stays in its loop), and every event delivered on
\* watcher.Events is eventually handled to the end of the loop body.
C5_LoopSurvives ==
    /\ [][phase = "running" => phase' = "running"]_vars
    /\ [](pc \in {"recv", "sleep", "http", "resp", "move"})
    /\ \A k \in 1..(2 * MaxEvents) : (Delivered >= k) ~> (completed >= k)

C5_Witness ==
    /\ errored
    /\ logged = "moved"
    /\ completed >= 2
    /\ pc = "recv"

\* C6: at most one request is in flight, at most one event is being handled,
\* and an event is taken from watcher.Events, in delivery order, only when the
\* handling of the one before has run to its end.
C6_OneAtATime ==
    /\ [](inflight <= 1 /\ taken - completed <= 1)
    /\ [][taken' # taken =>
            /\ inflight = 0
            /\ completed = taken
            /\ taken' = taken + 1
            /\ cur' = Head(events)
            /\ events' = Tail(events)]_vars

C6_Witness ==
    /\ taken >= 2
    /\ completed = taken - 1
    /\ pc = "http"
    /\ inflight = 1
    /\ events # << >>

\* C7 (as stated): with a configuration file that cannot be read, cannot be
\* parsed or lacks api_url, dirWatcher is never entered, no watcher is created
\* and nothing is uploaded; on a read or parse failure no directory is created.
C7_Claim ==
    /\ cfgFile # "ok" =>
          (~entered /\ ~watcherCreated /\ phase # "running" /\ inflight = 0)
    /\ cfgFile \in {"unreadable", "unparsable"} => dirs = {}

\* C8 (as stated): whenever processFile returns an error, processed holds no
\* new or altered file.
C8_Claim ==
    [][ErrorReturnStep => processed' = processed]_vars

\* C9: while a request is in flight and unanswered, no event is taken or
\* completed, nothing is written to processed or destination, no other
\* request is issued, and the process keeps running.
C9_HangStalls ==
    [][(inflight > 0 /\ inflight' >= inflight) =>
        /\ taken' = taken
        /\ completed' = completed
        /\ cur' = cur
        /\ processed' = processed
        /\ dest' = dest
        /\ inflight' = inflight
        /\ phase' = "running"]_vars

C9_Witness ==
    /\ pc = "http"
    /\ inflight = 1
    /\ Len(events) >= 1

\* C10: receiving an event without the Create bit changes no directory and
\* issues no request, and a request is only ever issued while handling an
\* event that has the Create bit, for that event's path.
C10_OnlyCreate ==
    /\ [][(taken' = taken + 1 /\ "Create" \notin Head(events).op) =>
            /\ source' = source
            /\ dest' = dest
            /\ processed' = processed
            /\ inflight' = inflight
            /\ pc' = "recv"
            /\ completed' = completed + 1]_vars
    /\ [][inflight' > inflight =>
            /\ "Create" \in cur.op
            /\ cur' = cur
            /\ cur.name \in DOMAIN source]_vars
    /\ [](pc # "recv" => "Create" \in cur.op)

C10_Witness ==
    /\ pc = "recv"
    /\ taken >= 1
    /\ completed = taken
    /\ cur.op = {"Write"}
    /\ cur.name \in DOMAIN source
    /\ cur.name \notin DOMAIN processed
====
